---- MODULE Spec2Model ----
\* Model of renderers/pyobjects.py: the StateRegistry, the StateFactory /
\* StateRequisite / State object model and the render entry point, driven by
\* an embedded program that creates states, enters and leaves `with` blocks,
\* includes names and serializes.
EXTENDS Integers, Sequences, FiniteSets, TLC

\* ---------------------------------------------------------------- bounds
MaxStates == 2      \* declarations registered in both sections together
MaxDepth == 2       \* entries on the requisite stack
MaxIncludes == 2    \* names held in includes
MaxList == 3        \* elements of the list object the program shares
MaxNames == 2       \* names in the list render is given

\* ---------------------------------------------------------------- values
\* line 29
REQUISITES == <<"require", "watch", "use", "require_in", "watch_in", "use_in">>

RequisiteKeys == {REQUISITES[i] : i \in DOMAIN REQUISITES}

\* A StateRequisite object (lines 116-121); the registry field is the one
\* registry of the render and is not stored.
StateRequisite(requisite, module, id_) ==
    [t |-> "req", requisite |-> requisite, module |-> module, id_ |-> id_]

\* A one-entry Python dict {k: v}.
Dict(k, v) == [t |-> "dict", requisite |-> "", module |-> k, id_ |-> v]

\* A plain string value.
Str(s) == [t |-> "str", requisite |-> "", module |-> "", id_ |-> s]

\* StateRequisite.__call__ (lines 123-124)
StateRequisite__call__(req) == Dict(req.module, req.id_)

\* A keyword-argument value: one non-list object, a list object owned by the
\* declaration alone, or a reference to the list object the program also
\* holds in a variable of its own (authorList).
One(it) == [kind |-> "one", items |-> <<it>>]
List(its) == [kind |-> "list", items |-> its]
Ref == [kind |-> "ref", items |-> <<>>]

NoKwargs == [k \in {} |-> Ref]

Put(f, k, v) == [x \in (DOMAIN f) \cup {k} |-> IF x = k THEN v ELSE f[x]]

\* StateExtend (lines 111-113) and StateRegistry.make_extend (lines 101-102);
\* a plain string id is the same record with ext = FALSE.
StateExtend(name) == [ext |-> TRUE, name |-> name]
make_extend(name) == StateExtend(name)
PlainId(name) == [ext |-> FALSE, name |-> name]

\* ---------------------------------------------------------------- inputs
Ids == {"a", "extend"}

\* StateFactory.__init__ (lines 148-153): File is restricted to its listed
\* functions, Pkg is built without valid_funcs.
File == [module |-> "file", valid_funcs |-> <<"managed">>]
Pkg == [module |-> "pkg", valid_funcs |-> <<>>]
Factories == {File, Pkg}

\* the requisites the program creates with Factory(id, requisite)
ReqInputs ==
    { StateRequisite("require", "pkg", "b"),
      StateRequisite("onchanges", "svc", "c") }

AuthorReq == StateRequisite("require", "file", "x")
AuthorDict == Dict("cmd", "y")

Owner == Put(NoKwargs, "owner", One(Str("root")))

\* the calls factory.func(id, **kwargs) the program makes
StateInputs ==
    { [factory |-> File, func |-> "managed", kwargs |-> Owner],
      [factory |-> File, func |-> "bogus", kwargs |-> Owner],
      [factory |-> File, func |-> "managed",
       kwargs |-> Put(Owner, "require", One(AuthorDict))],
      [factory |-> Pkg, func |-> "bogus",
       kwargs |-> Put(NoKwargs, "require", One(AuthorReq))],
      [factory |-> File, func |-> "managed",
       kwargs |-> Put(Owner, "require", List(<<AuthorReq, AuthorDict>>))],
      [factory |-> Pkg, func |-> "bogus",
       kwargs |-> Put(NoKwargs, "require", Ref)] }

\* the list object the program keeps in a variable and passes as require=
AuthorListInit == <<AuthorReq>>

IncludeInputs == { <<"ssh", "http">> }

\* names "module.function" as the strings of characters render splits
FileManaged == <<"f", "i", "l", "e", ".", "m", "a", "n", "a", "g", "e", "d">>
FileAbsent == <<"f", "i", "l", "e", ".", "a", "b", "s", "e", "n", "t">>
PkgManaged == <<"p", "k", "g", ".", "m", "a", "n", "a", "g", "e", "d">>
NameInputs == {FileManaged, FileAbsent, PkgManaged}

\* the lists of names render is called with (its _states argument)
StatesInputs == UNION {[1..n -> NameInputs] : n \in 0..MaxNames}

\* the list behind the factory File of the programs above
LoadedStates == <<FileManaged>>

\* the factory names and function names the program of such a render uses
GlobalInputs == {"File", "Pkg", "Svc"}
FuncInputs == {"managed", "absent"}

\* ---------------------------------------------------------------- state
VARIABLES
    states,      \* StateRegistry.states: OrderedDict, as a sequence of entries
                 \* [id, st] (given and scopes record what the call passed
                 \* and the stack it met, kwargs0 the kwargs add() left)
    extends,     \* StateRegistry.extends, likewise
    includes,    \* StateRegistry.includes
    requisites,  \* StateRegistry.requisites: the stack of active requisites
    authorList,  \* contents of the list object shared with the program
    blocks,      \* the program's open `with` blocks, innermost last
    pc,          \* "run" | "raise" | "done" | "fail"
    doc,         \* the value returned by the last call, if it was salt_data()
    last,        \* the last call made and how it ended
    _states      \* render's _states: the names "module.function" it is given

vars == <<states, extends, includes, requisites, authorList, blocks, pc, doc, last,
          _states>>

registry == <<states, extends, includes, requisites>>

\* ---------------------------------------------------------------- OrderedDict
Keys(od) == {od[i].id : i \in DOMAIN od}

IndexOf(od, key) == CHOOSE i \in DOMAIN od : od[i].id = key

\* od[key] = value: a new key goes last, an existing key keeps its place
ODSet(od, key, value) ==
    IF key \in Keys(od)
    THEN [od EXCEPT ![IndexOf(od, key)] = [id |-> key, val |-> value]]
    ELSE Append(od, [id |-> key, val |-> value])

\* ---------------------------------------------------------------- State
\* str ordering of the attribute keys in use, as sorted() sees them
KeyOrder ==
    <<"onchanges", "owner", "require", "require_in", "use", "use_in",
      "watch", "watch_in">>

\* Variant of sorted that returns the keys in descending order
sorted_descending(S) ==
    SelectSeq([i \in DOMAIN KeyOrder |-> KeyOrder[Len(KeyOrder) + 1 - i]],
              LAMBDA k : k \in S)

sorted(S) == SelectSeq(KeyOrder, LAMBDA k : k \in S)

Map(s, Op(_)) == [i \in DOMAIN s |-> Op(s[i])]

\* Variant of Transform that keeps StateRequisite objects as they are
Transform_keep(it) == it

\* lines 222-225: requisite objects become their dict, the rest is kept
Transform(it) == IF it.t = "req" THEN StateRequisite__call__(it) ELSE it

\* lines 217-225 for one requisite key
NormalizeValue(v, lst) ==
    LET asList == IF v.kind = "list" THEN v.items
                  ELSE IF v.kind = "ref" THEN lst
                  ELSE <<v.items[1]>>
    IN List(Map(asList, Transform))

\* lines 209-225: kwargs after the loop over REQUISITES
NormalizeKwargs(kwargs, lst) ==
    [k \in DOMAIN kwargs |->
        IF k \in RequisiteKeys THEN NormalizeValue(kwargs[k], lst) ELSE kwargs[k]]

\* the value as it is seen through the returned structure
Deref(v, lst) == IF v.kind = "ref" THEN List(lst) ELSE v

\* State.attrs (lines 207-232): the returned list of one-key dicts
attrs(st, lst) ==
    LET kwargs == NormalizeKwargs(st.kwargs, lst)
        keys == sorted(DOMAIN kwargs)
    IN [i \in DOMAIN keys |-> [k |-> keys[i], v |-> Deref(kwargs[keys[i]], lst)]]

\* State.full_func (lines 234-236)
full_func(st) == st.module \o "." \o st.func

\* The values a Document holds under its keys: the one-key dict a State
\* returns, the list of included names, the mapping of the extend section.
DocState(f, a) == [kind |-> "state", full_func |-> f, attrs |-> a, names |-> <<>>,
                   sub |-> <<>>]
DocInclude(names) == [kind |-> "include", full_func |-> "", attrs |-> <<>>,
                      names |-> names, sub |-> <<>>]
DocExtend(sub) == [kind |-> "extend", full_func |-> "", attrs |-> <<>>,
                   names |-> <<>>, sub |-> sub]

\* State.__call__ (lines 241-244)
State__call__(st, lst) == DocState(full_func(st), attrs(st, lst))

\* the requisite a State builds for itself (lines 204-205)
OwnRequisite(st) == StateRequisite("require", st.module, st.id_)

\* ---------------------------------------------------------------- StateRegistry
\* lines 86-87
IsDuplicate(attr, id_) == id_ \in Keys(attr)

\* C3 mutant of the injection loop: each edge is put in front of the list
RECURSIVE add_requisites_front(_, _, _)
add_requisites_front(reqs, kwargs, lst) ==
    IF reqs = <<>>
    THEN [ok |-> TRUE, kwargs |-> kwargs, list |-> lst]
    ELSE LET req == Head(reqs)
             k == req.requisite
             kw == IF k \notin DOMAIN kwargs THEN Put(kwargs, k, List(<<>>)) ELSE kwargs
             v == kw[k]
         IN IF v.kind = "list"
            THEN add_requisites_front(Tail(reqs),
                     Put(kw, k, List(<<StateRequisite__call__(req)>> \o v.items)), lst)
            ELSE IF v.kind = "ref"
            THEN add_requisites_front(Tail(reqs), kw,
                     <<StateRequisite__call__(req)>> \o lst)
            ELSE [ok |-> FALSE, kwargs |-> kw, list |-> lst]

\* lines 90-94: the loop over the requisite stack, oldest first; a value
\* without append() stops it with AttributeError, after the appends made so far
RECURSIVE add_requisites(_, _, _)
add_requisites(reqs, kwargs, lst) ==
    IF reqs = <<>>
    THEN [ok |-> TRUE, kwargs |-> kwargs, list |-> lst]
    ELSE LET req == Head(reqs)
             k == req.requisite
             kw == IF k \notin DOMAIN kwargs THEN Put(kwargs, k, List(<<>>)) ELSE kwargs
             v == kw[k]
         IN IF v.kind = "list"
            THEN add_requisites(Tail(reqs),
                     Put(kw, k, List(Append(v.items, StateRequisite__call__(req)))), lst)
            ELSE IF v.kind = "ref"
            THEN add_requisites(Tail(reqs), kw, Append(lst, StateRequisite__call__(req)))
            ELSE [ok |-> FALSE, kwargs |-> kw, list |-> lst]

\* C4 mutant of add: the new entry is put first in its section
add_first(id_, state, extend) ==
    LET attr == IF extend THEN extends ELSE states
        inj == add_requisites(requisites, state.kwargs, authorList)
        entry == [id |-> id_, st |-> [state EXCEPT !.kwargs = inj.kwargs],
                  given |-> [k \in DOMAIN state.kwargs |->
                                Deref(state.kwargs[k], authorList)],
                  scopes |-> requisites, kwargs0 |-> inj.kwargs]
    IN IF id_ \in Keys(attr)
       THEN [err |-> "DuplicateState", states |-> states, extends |-> extends,
             list |-> authorList]
       ELSE IF ~inj.ok
       THEN [err |-> "AttributeError", states |-> states, extends |-> extends,
             list |-> inj.list]
       ELSE [err |-> "",
             states |-> IF extend THEN states ELSE <<entry>> \o states,
             extends |-> IF extend THEN <<entry>> \o extends ELSE extends,
             list |-> inj.list]

\* Variant of add that runs the injection loop before the duplicate check
add_inject_first(id_, state, extend) ==
    LET attr == IF extend THEN extends ELSE states
        inj == add_requisites(requisites, state.kwargs, authorList)
        entry == [id |-> id_, st |-> [state EXCEPT !.kwargs = inj.kwargs],
                  given |-> [k \in DOMAIN state.kwargs |->
                                Deref(state.kwargs[k], authorList)],
                  scopes |-> requisites, kwargs0 |-> inj.kwargs]
    IN IF ~inj.ok
       THEN [err |-> "AttributeError", states |-> states, extends |-> extends,
             list |-> inj.list]
       ELSE IF IsDuplicate(attr, id_)
       THEN [err |-> "DuplicateState", states |-> states, extends |-> extends,
             list |-> inj.list]
       ELSE [err |-> "",
             states |-> IF extend THEN states ELSE Append(states, entry),
             extends |-> IF extend THEN Append(extends, entry) ELSE extends,
             list |-> inj.list]

\* StateRegistry.add (lines 80-96) and extend (lines 98-99)
add(id_, state, extend) ==
    LET attr == IF extend THEN extends ELSE states
        inj == add_requisites(requisites, state.kwargs, authorList)
        entry == [id |-> id_, st |-> [state EXCEPT !.kwargs = inj.kwargs],
                  given |-> [k \in DOMAIN state.kwargs |->
                                Deref(state.kwargs[k], authorList)],
                  scopes |-> requisites, kwargs0 |-> inj.kwargs]
    IN IF IsDuplicate(attr, id_)
       THEN [err |-> "DuplicateState", states |-> states, extends |-> extends,
             list |-> authorList]
       ELSE IF ~inj.ok
       THEN [err |-> "AttributeError", states |-> states, extends |-> extends,
             list |-> inj.list]
       ELSE [err |-> "",
             states |-> IF extend THEN states ELSE Append(states, entry),
             extends |-> IF extend THEN Append(extends, entry) ELSE extends,
             list |-> inj.list]

\* C8 mutant of push_requisite: the requisite goes to the bottom of the stack
push_requisite_bottom(stack, requisite) == <<requisite>> \o stack

\* StateRegistry.push_requisite (lines 104-105)
push_requisite(stack, requisite) == Append(stack, requisite)

\* C7 mutant of pop_requisite: the oldest entry is deleted, not the newest
pop_requisite_oldest(stack) ==
    IF stack = <<>>
    THEN [err |-> "IndexError", requisites |-> stack]
    ELSE [err |-> "", requisites |-> Tail(stack)]

\* StateRegistry.pop_requisite (lines 107-108): del on an empty list raises
pop_requisite(stack) ==
    IF stack = <<>>
    THEN [err |-> "IndexError", requisites |-> stack]
    ELSE [err |-> "", requisites |-> SubSeq(stack, 1, Len(stack) - 1)]

\* C6 mutant of empty: the requisite stack is not reset
empty_keeps_requisites ==
    [states |-> <<>>, requisites |-> requisites, includes |-> <<>>, extends |-> <<>>]

\* StateRegistry.empty (lines 52-56)
empty == [states |-> <<>>, requisites |-> <<>>, includes |-> <<>>, extends |-> <<>>]

\* lines 62-65 and 71-74
Serialized(od, lst) ==
    [i \in DOMAIN od |-> [id |-> od[i].id, val |-> State__call__(od[i].st, lst)]]

\* StateRegistry.salt_data (lines 61-78): the returned OrderedDict
salt_data_result ==
    LET d0 == Serialized(states, authorList)
        d1 == IF includes # <<>> THEN ODSet(d0, "include", DocInclude(includes)) ELSE d0
        d2 == IF extends # <<>>
              THEN ODSet(d1, "extend", DocExtend(Serialized(extends, authorList)))
              ELSE d1
    IN d2

\* Variant of IsInvalidFunction in which an empty valid_funcs rejects every function
IsInvalidFunction_strict(factory, func) ==
    func \notin {factory.valid_funcs[i] : i \in DOMAIN factory.valid_funcs}

\* Variant of StateFactory.__call__ that also pushes the requisite it makes
StateFactory__call__pushing(factory, id_, requisite) ==
    [value |-> StateRequisite(requisite, factory.module, id_),
     requisites |-> Append(requisites, StateRequisite(requisite, factory.module, id_))]

\* StateFactory.__call__ (lines 170-176): the StateRequisite it returns and
\* the requisite stack it leaves
StateFactory__call__(factory, id_, requisite) ==
    [value |-> StateRequisite(requisite, factory.module, id_),
     requisites |-> requisites]

\* the kwargs State.attrs leaves in the State (lines 209-225): it assigns the
\* lists it builds to self.kwargs
attrs_kwargs(st, lst) == NormalizeKwargs(st.kwargs, lst)

\* StateFactory.__getattr__ (lines 155-158)
IsInvalidFunction(factory, func) ==
    /\ Len(factory.valid_funcs) > 0
    /\ func \notin {factory.valid_funcs[i] : i \in DOMAIN factory.valid_funcs}

\* ---------------------------------------------------------------- render
\* the str of a sequence of characters
RECURSIVE Join(_)
Join(chars) == IF chars = <<>> THEN "" ELSE chars[1] \o Join(Tail(chars))

\* str.split(sep): the pieces between the separators
RECURSIVE split(_, _)
split(chars, sep) ==
    IF \A i \in DOMAIN chars : chars[i] # sep
    THEN <<chars>>
    ELSE LET i == CHOOSE i \in DOMAIN chars :
                    chars[i] = sep /\ \A j \in 1..(i - 1) : chars[j] # sep
         IN <<SubSeq(chars, 1, i - 1)>> \o split(SubSeq(chars, i + 1, Len(chars)), sep)

\* str.upper and str.lower on the letters in use
upper(c) == CASE c = "f" -> "F" [] c = "p" -> "P" [] OTHER -> c
lower(c) == CASE c = "F" -> "f" [] c = "P" -> "p" [] OTHER -> c

\* str.capitalize (line 310)
capitalize(chars) ==
    [i \in DOMAIN chars |-> IF i = 1 THEN upper(chars[i]) ELSE lower(chars[i])]

\* str ordering of the function names in use, and list.sort (line 309)
FuncOrder == <<"absent", "bogus", "managed">>

sort(fs) ==
    LET occ(k) == SelectSeq(fs, LAMBDA f : f = k)
    IN occ(FuncOrder[1]) \o occ(FuncOrder[2]) \o occ(FuncOrder[3])

\* Variant of _st_funcs that lists every function under every module
_st_funcs_unpartitioned(names) ==
    LET mods == {split(names[i], ".")[1] : i \in DOMAIN names}
    IN [m \in mods |-> [i \in DOMAIN names |-> Join(split(names[i], ".")[2])]]

\* lines 298-303: the functions of each module, in the order of the list
\* (the names given are of the form module.function)
RECURSIVE _st_funcs(_)
_st_funcs(names) ==
    IF names = <<>>
    THEN [m \in {} |-> <<>>]
    ELSE LET rest == _st_funcs(SubSeq(names, 1, Len(names) - 1))
             parts == split(names[Len(names)], ".")
             mod == parts[1]
             func == Join(parts[2])
         IN Put(rest, mod, Append(IF mod \in DOMAIN rest THEN rest[mod] ELSE <<>>, func))

\* lines 305-319: the StateFactory objects render binds in _globals, by the
\* name they are bound under
_globals(names) ==
    LET mods == DOMAIN _st_funcs(names)
    IN [n \in {Join(capitalize(m)) : m \in mods} |->
           LET mod == CHOOSE m \in mods : Join(capitalize(m)) = n
           IN [module |-> Join(mod), valid_funcs |-> sort(_st_funcs(names)[mod])]]

\* ---------------------------------------------------------------- actions
\* prev and left are set by the start of a render: how the render before it
\* ended and how many declarations and includes its registry still held
NoCall == [op |-> "none", err |-> "", id |-> "", ext |-> FALSE, module |-> "",
           func |-> "", kwargs |-> NoKwargs, entered |-> FALSE, depth |-> 0,
           prev |-> "", left |-> 0, requisite |-> ""]

Call(op, err) == [NoCall EXCEPT !.op = op, !.err = err, !.depth = Len(requisites)]

\* Variant of render in which one registry serves every render and is not
\* emptied when a render starts
StateRegistry_kept ==
    [states |-> states, requisites |-> requisites, includes |-> includes,
     extends |-> extends]

\* _registry = StateRegistry() (line 293, lines 49-50): every render builds
\* a registry of its own
StateRegistry__init__ == empty

\* StateRegistry.__init__ / empty (lines 49-56), render's fresh registry
\* (line 293) and the start of the program
InitRender(names) ==
    /\ states = <<>>
    /\ extends = <<>>
    /\ includes = <<>>
    /\ requisites = <<>>
    /\ authorList = AuthorListInit
    /\ blocks = <<>>
    /\ pc = "run"
    /\ doc = <<>>
    /\ last = NoCall
    /\ _states = names

Init == InitRender(LoadedStates)

\* a render given any of the lists of names
InitFactories == \E names \in StatesInputs : InitRender(names)

\* factory.func(id, **kwargs), optionally as the owner of a `with` block:
\* StateFactory.__getattr__ (155-168), State.__init__ (191-205),
\* StateRegistry.add (80-96), State.__enter__ (246-247)
MakeState(factory, func, id_, kwargs, enter) ==
    /\ pc = "run"
    /\ Len(states) + Len(extends) < MaxStates
    /\ enter => Len(requisites) < MaxDepth /\ Len(blocks) < MaxDepth
    /\ (\E k \in DOMAIN kwargs : kwargs[k].kind = "ref") =>
            Len(authorList) + Len(requisites) <= MaxList
    /\ LET state == [id_ |-> id_.name, module |-> factory.module, func |-> func,
                     kwargs |-> kwargs]
           r == add(id_.name, state, id_.ext)
           err == IF IsInvalidFunction(factory, func) THEN "InvalidFunction" ELSE r.err
           call == [op |-> "state", err |-> err, id |-> id_.name, ext |-> id_.ext,
                    module |-> factory.module, func |-> func, kwargs |-> kwargs,
                    entered |-> enter, depth |-> Len(requisites),
                    prev |-> "", left |-> 0, requisite |-> ""]
       IN /\ last' = call
          /\ IF err = "InvalidFunction"
             THEN /\ pc' = "raise"
                  /\ UNCHANGED <<states, extends, authorList, requisites, blocks>>
             ELSE IF err # ""
             THEN /\ pc' = "raise"
                  /\ authorList' = r.list
                  /\ UNCHANGED <<states, extends, requisites, blocks>>
             ELSE /\ pc' = pc
                  /\ states' = r.states
                  /\ extends' = r.extends
                  /\ authorList' = r.list
                  /\ IF enter
                     THEN /\ requisites' = push_requisite(requisites, OwnRequisite(state))
                          /\ blocks' = Append(blocks, [saved |-> requisites,
                                                         req |-> OwnRequisite(state)])
                     ELSE UNCHANGED <<requisites, blocks>>
    /\ doc' = <<>>
    /\ UNCHANGED includes
    /\ UNCHANGED _states

\* `with Factory(id, requisite):` StateFactory.__call__ (170-176) and
\* StateRequisite.__enter__ (126-127)
WithRequisite(req) ==
    /\ pc = "run"
    /\ Len(requisites) < MaxDepth
    /\ Len(blocks) < MaxDepth
    /\ requisites' = push_requisite(requisites, req)
    /\ blocks' = Append(blocks, [saved |-> requisites, req |-> req])
    /\ last' = Call("enter", "")
    /\ doc' = <<>>
    /\ UNCHANGED <<states, extends, includes, authorList, pc>>
    /\ UNCHANGED _states

\* the body of the innermost block completes: __exit__ (129-130, 249-250)
ExitBlock ==
    /\ pc = "run"
    /\ blocks # <<>>
    /\ LET r == pop_requisite(requisites)
       IN /\ requisites' = r.requisites
          /\ pc' = IF r.err = "" THEN "run" ELSE "raise"
          /\ last' = Call("exit", r.err)
    /\ blocks' = SubSeq(blocks, 1, Len(blocks) - 1)
    /\ doc' = <<>>
    /\ UNCHANGED <<states, extends, includes, authorList>>
    /\ UNCHANGED _states

\* an error leaves the innermost block: the same __exit__ runs and, returning
\* None, lets the error go on
Unwind ==
    /\ pc = "raise"
    /\ blocks # <<>>
    /\ LET r == pop_requisite(requisites)
       IN /\ requisites' = r.requisites
          /\ last' = [last EXCEPT !.op = "unwind",
                                  !.err = IF r.err = "" THEN last.err ELSE r.err]
    /\ blocks' = SubSeq(blocks, 1, Len(blocks) - 1)
    /\ doc' = <<>>
    /\ UNCHANGED <<states, extends, includes, authorList, pc>>
    /\ UNCHANGED _states

\* the program handles the error itself (try/except in the template)
Catch ==
    /\ pc = "raise"
    /\ pc' = "run"
    /\ last' = Call("catch", "")
    /\ doc' = <<>>
    /\ UNCHANGED <<states, extends, includes, requisites, authorList, blocks>>
    /\ UNCHANGED _states

\* the error leaves the template: render (lines 342-345) returns nothing
Abort ==
    /\ pc = "raise"
    /\ blocks = <<>>
    /\ pc' = "fail"
    /\ doc' = <<>>
    /\ UNCHANGED <<states, extends, includes, requisites, authorList, blocks, last>>
    /\ UNCHANGED _states

\* StateRegistry.include (lines 58-59)
Include(names) ==
    /\ pc = "run"
    /\ Len(includes) + Len(names) <= MaxIncludes
    /\ includes' = includes \o names
    /\ last' = Call("include", "")
    /\ doc' = <<>>
    /\ UNCHANGED <<states, extends, requisites, authorList, blocks, pc>>
    /\ UNCHANGED _states

\* StateRegistry.salt_data (lines 61-78) with its call of empty (52-56)
SaltData(next) ==
    /\ doc' = salt_data_result
    /\ states' = empty.states
    /\ requisites' = empty.requisites
    /\ includes' = empty.includes
    /\ extends' = empty.extends
    /\ pc' = next
    /\ last' = Call("salt_data", "")
    /\ UNCHANGED <<authorList, blocks>>
    /\ UNCHANGED _states

\* the template has run to its end: render returns salt_data() (line 347)
RenderReturn ==
    /\ pc = "run"
    /\ blocks = <<>>
    /\ SaltData("done")

\* the caller calls salt_data() once more on the registry render has used
DirectSaltData ==
    /\ pc = "done"
    /\ SaltData("done")

\* requisite.__enter__() called by the program outside a with statement
\* (lines 126-127, 104-105)
DirectPush(req) ==
    /\ pc = "run"
    /\ Len(requisites) < MaxDepth
    /\ requisites' = push_requisite(requisites, req)
    /\ last' = Call("push", "")
    /\ doc' = <<>>
    /\ UNCHANGED <<states, extends, includes, authorList, blocks, pc>>
    /\ UNCHANGED _states

\* Factory(id, requisite) evaluated by itself (lines 170-176)
CallFactory(factory, id_, requisite) ==
    /\ pc = "run"
    /\ LET r == StateFactory__call__(factory, id_, requisite)
       IN /\ requisites' = r.requisites
          /\ last' = [Call("requisite", "") EXCEPT !.id = r.value.id_,
                          !.module = r.value.module, !.requisite = r.value.requisite]
    /\ doc' = <<>>
    /\ UNCHANGED <<states, extends, includes, authorList, blocks, pc>>
    /\ UNCHANGED _states

\* extend(name) evaluated by itself (lines 101-102, 111-113)
MakeExtend(name) ==
    /\ pc = "run"
    /\ last' = [Call("make_extend", "") EXCEPT !.id = make_extend(name).name,
                    !.ext = make_extend(name).ext]
    /\ doc' = <<>>
    /\ UNCHANGED <<states, extends, includes, requisites, authorList, blocks, pc>>
    /\ UNCHANGED _states

\* the program reads state.attrs or prints the State of an entry it holds
\* (lines 207-232, 238-239): the kwargs of that State are rebuilt
ReadAttrs(ext, i) ==
    /\ pc = "run"
    /\ i \in DOMAIN (IF ext THEN extends ELSE states)
    /\ LET od == IF ext THEN extends ELSE states
           st == od[i].st
           od2 == [od EXCEPT ![i].st.kwargs = attrs_kwargs(st, authorList)]
       IN /\ states' = IF ext THEN states ELSE od2
          /\ extends' = IF ext THEN od2 ELSE extends
          /\ last' = [Call("attrs", "") EXCEPT !.id = od[i].id, !.ext = ext]
    /\ doc' = <<>>
    /\ UNCHANGED <<includes, requisites, authorList, blocks, pc>>
    /\ UNCHANGED _states

\* the next render: a new StateRegistry and a new run of the program
StartRender(names) ==
    /\ _states' = names
    /\ pc \in {"done", "fail"}
    /\ states' = StateRegistry__init__.states
    /\ extends' = StateRegistry__init__.extends
    /\ includes' = StateRegistry__init__.includes
    /\ requisites' = StateRegistry__init__.requisites
    /\ authorList' = AuthorListInit
    /\ blocks' = <<>>
    /\ pc' = "run"
    /\ doc' = <<>>
    /\ last' = [NoCall EXCEPT !.op = "render", !.prev = pc,
                              !.left = Len(states) + Len(extends) + Len(includes)]

NewRender == StartRender(_states)

\* Name.func(id, owner='root') in a program run by render: the name is
\* looked up in _globals (lines 342-345), the rest is MakeState
CallGlobal(name, func, id_) ==
    IF name \in DOMAIN _globals(_states)
    THEN MakeState(_globals(_states)[name], func, PlainId(id_), Owner, FALSE)
    ELSE /\ pc = "run"
         /\ pc' = "raise"
         /\ last' = [Call("state", "NameError") EXCEPT !.id = id_, !.func = func]
         /\ doc' = <<>>
         /\ UNCHANGED <<states, extends, includes, requisites, authorList, blocks,
                        _states>>

DoMakeState ==
    \E c \in StateInputs, name \in Ids, ext \in BOOLEAN, enter \in BOOLEAN :
        /\ enter => c.kwargs = Owner
        /\ MakeState(c.factory, c.func,
                  IF ext THEN make_extend(name) ELSE PlainId(name), c.kwargs, enter)

DoWithRequisite == \E req \in ReqInputs : WithRequisite(req)

DoInclude == \E names \in IncludeInputs : Include(names)

DoDirectPush == \E req \in ReqInputs : DirectPush(req)

\* a render whose scopes are entered and left through with blocks only
Next ==
    \/ DoMakeState
    \/ DoWithRequisite
    \/ ExitBlock
    \/ Unwind
    \/ Catch
    \/ Abort
    \/ DoInclude
    \/ RenderReturn
    \/ NewRender

\* the same with requisites entered outside with blocks and with salt_data()
\* called again after the render
NextDirect ==
    \/ Next
    \/ DirectSaltData
    \/ DoDirectPush

\* a render whose program also makes requisites and extend markers without
\* using them and reads attributes before the Document is built
DoCallFactory ==
    \E req \in ReqInputs \cup {AuthorReq} :
        CallFactory([module |-> req.module, valid_funcs |-> <<>>], req.id_, req.requisite)

DoMakeExtend == \E name \in Ids : MakeExtend(name)

\* the calls factory.func(id, **kwargs) of such a program
ValueInputs ==
    { c \in StateInputs :
        \/ c.kwargs = Owner
        \/ "require" \in DOMAIN c.kwargs /\ c.kwargs["require"].kind \in {"ref", "list"} }

DoMakeStateValues ==
    \E c \in ValueInputs, name \in Ids, enter \in BOOLEAN :
        /\ c.func # "bogus" \/ c.factory = Pkg
        /\ enter => c.kwargs = Owner
        /\ MakeState(c.factory, c.func, PlainId(name), c.kwargs, enter)

DoReadAttrs == \E ext \in BOOLEAN, i \in 1..MaxStates : ReadAttrs(ext, i)

NextValues ==
    \/ DoMakeStateValues
    \/ DoWithRequisite
    \/ ExitBlock
    \/ RenderReturn
    \/ DoCallFactory
    \/ DoMakeExtend
    \/ DoReadAttrs

\* renders given different lists of names, whose programs call functions
\* of the factories by their bound names
DoCallGlobal ==
    \E name \in GlobalInputs, func \in FuncInputs, id_ \in Ids :
        CallGlobal(name, func, id_)

DoStartRender == \E names \in StatesInputs : StartRender(names)

NextFactories ==
    \/ DoCallGlobal
    \/ Abort
    \/ RenderReturn
    \/ DoStartRender

Spec == Init /\ [][Next]_vars

SpecFactories == InitFactories /\ [][NextFactories]_vars

SpecValues == Init /\ [][NextValues]_vars

SpecDirect == Init /\ [][NextDirect]_vars

\* ---------------------------------------------------------------- properties
SectionIds(od) == [i \in DOMAIN od |-> od[i].id]

Entries == {states[i] : i \in DOMAIN states} \cup {extends[i] : i \in DOMAIN extends}

\* a step that is a call factory.func(id, **kwargs)
StateCall == pc = "run" /\ last'.op = "state"

\* a step that is a call of salt_data()
SaltDataCall == pc \in {"run", "done"} /\ last'.op = "salt_data"

\* the section the call just made was aimed at, before and after the call
Target == IF last'.ext THEN extends ELSE states
TargetAfter == IF last'.ext THEN extends' ELSE states'
Other == IF last'.ext THEN states ELSE extends

\* the edge-records of the requisites of a stack that have relation r, in
\* stack order
EdgesFor(stack, r) ==
    LET sel == SelectSeq(stack, LAMBDA q : q.requisite = r)
    IN [i \in DOMAIN sel |-> Dict(sel[i].module, sel[i].id_)]

Relations(stack) == {stack[i].requisite : i \in DOMAIN stack}

\* an author-supplied value with its Requisite elements as edge-records
Normalized(v) ==
    [i \in DOMAIN v.items |->
        IF v.items[i].t = "req" THEN Dict(v.items[i].module, v.items[i].id_)
        ELSE v.items[i]]

\* the serialized attributes of an entry that sit under key k
AttrsUnder(e, k) ==
    SelectSeq(attrs(e.st, authorList), LAMBDA a : a.k = k)

\* C1: add(id, d) into a section that already holds id fails with
\* DuplicateState, for either section; adding id to a section that does not
\* hold it while the other section does succeeds, and both sections then
\* hold id.
C1_DuplicateOrSuccess ==
    [][StateCall /\ last'.err # "InvalidFunction" =>
         /\ last'.id \in Keys(Target) => last'.err = "DuplicateState"
         /\ (last'.id \notin Keys(Target) /\ last'.id \in Keys(Other)) =>
                /\ last'.err = ""
                /\ last'.id \in Keys(states') \cap Keys(extends')]_vars

\* the part of C1 about duplicates alone: the call fails with DuplicateState
\* exactly when the section it aims at holds the id
DuplicateIffPresent ==
    [][StateCall /\ last'.err # "InvalidFunction" =>
         (last'.err = "DuplicateState" <=> last'.id \in Keys(Target))]_vars

\* C2: a declaration constructed while a scope is active, whose author gave
\* a value (a sequence or a single value) for a relation key an active
\* requisite uses, is constructed without error, and its serialized list
\* under that key is the author's edges, normalized, followed by the edges of
\* the active requisites of that relation.
C2_AuthorThenInjected ==
    [][(/\ StateCall
        /\ last'.err \notin {"InvalidFunction", "DuplicateState"}
        /\ DOMAIN last'.kwargs \cap Relations(requisites) # {}) =>
         /\ last'.err = ""
         /\ LET e == TargetAfter[Len(TargetAfter)]
            IN \A k \in DOMAIN last'.kwargs \cap Relations(requisites) :
                 SelectSeq(attrs(e.st, authorList'), LAMBDA a : a.k = k) =
                    << [k |-> k,
                        v |-> List(Normalized(e.given[k]) \o EdgesFor(requisites, k))] >>
      ]_vars

\* C3: a declaration constructed under k >= 1 active scopes and without
\* author-supplied relation values has, under each relation key r, exactly
\* the edge-records of the active requisites of relation r, oldest first,
\* and no entry under a relation key no active requisite uses.
C3_InjectedInStackOrder ==
    \A e \in Entries :
        (e.scopes # <<>> /\ DOMAIN e.given \cap (RequisiteKeys \cup Relations(e.scopes)) = {}) =>
            \A r \in RequisiteKeys \cup Relations(e.scopes) :
                AttrsUnder(e, r) =
                    IF r \in Relations(e.scopes)
                    THEN << [k |-> r, v |-> List(EdgesFor(e.scopes, r))] >>
                    ELSE << >>

\* C3 witness: a declaration made inside two nested scopes of one relation
\* with different targets, so that the order of its edges shows
C3_Witness ==
    \E e \in Entries :
        /\ Len(e.scopes) = 2
        /\ e.scopes[1].requisite = e.scopes[2].requisite
        /\ e.scopes[1] # e.scopes[2]
        /\ DOMAIN e.given \cap (RequisiteKeys \cup Relations(e.scopes)) = {}
        /\ AttrsUnder(e, e.scopes[1].requisite) # << >>

IsPrefix(s, t) == Len(s) <= Len(t) /\ SubSeq(t, 1, Len(s)) = s

C5_EveryDeclarationInDocument ==
    [][SaltDataCall =>
         \A i \in DOMAIN states :
            \E j \in DOMAIN doc' :
                /\ doc'[j].id = states[i].id
                /\ doc'[j].val = State__call__(states[i].st, authorList)]_vars

\* C6: after any salt_data() call states, extends, includes and requisites
\* are empty as in a new registry, and salt_data() on a registry without
\* states, extends and includes returns the empty mapping.
C6_ResetAfterSerialize ==
    [][SaltDataCall =>
         /\ states' = <<>> /\ extends' = <<>> /\ includes' = <<>> /\ requisites' = <<>>
         /\ (states = <<>> /\ extends = <<>> /\ includes = <<>>) => doc' = <<>>]_vars

\* C6 witness: salt_data() was called with a requisite still on the stack
\* and returned a Document, and the registry is empty
C6_Witness ==
    /\ last.op = "salt_data"
    /\ last.depth > 0
    /\ doc # <<>>
    /\ requisites = <<>>

\* a step that leaves the innermost with block, normally or by an error
LeavesBlock ==
    /\ pc \in {"run", "raise"}
    /\ blocks # <<>>
    /\ blocks' = SubSeq(blocks, 1, Len(blocks) - 1)

\* C7: when a with block is left, by its body ending or by an error going
\* through it, the requisite stack is again what it was just before the
\* block was entered.
C7_StackRestoredOnExit ==
    [][LeavesBlock => requisites' = blocks[Len(blocks)].saved]_vars

\* C7 witness: a DuplicateState error has left a block nested in another one
\* and the stack holds the outer block's requisite alone
C7_Witness ==
    /\ last.op = "unwind"
    /\ last.err = "DuplicateState"
    /\ Len(blocks) = 1
    /\ requisites = <<blocks[1].req>>

\* C8: with scopes entered and left through with blocks only, the stack
\* holds the requisites of the open blocks in the order they were entered,
\* leaving a block removes the newest entry, and the stack is empty when
\* salt_data() is called at the end of the program.
C8_StackIsOpenBlocks ==
    /\ requisites = [i \in DOMAIN blocks |-> blocks[i].req]
    /\ last.op = "salt_data" => last.depth = 0

\* C8 witness: two nested blocks with different requisites are open
C8_Witness ==
    /\ Len(blocks) = 2
    /\ requisites[1] # requisites[2]
    /\ pc = "run"

\* C9: a State made with a StateExtend id goes to extends alone, under the
\* marker's name, which becomes its id; the Document holds the extend
\* section under "extend", holds no more top-level declarations than states
\* has, and has the key "extend" exactly when extends is not empty.
C9_ExtendSection ==
    [][/\ (StateCall /\ last'.ext /\ last'.err = "") =>
              /\ states' = states
              /\ Len(extends') = Len(extends) + 1
              /\ extends'[Len(extends')].id = last'.id
              /\ extends'[Len(extends')].st.id_ = last'.id
       /\ SaltDataCall =>
              /\ ("extend" \in Keys(doc')) <=> (extends # <<>>)
              /\ extends # <<>> =>
                    \E j \in DOMAIN doc' :
                        /\ doc'[j].id = "extend"
                        /\ doc'[j].val = DocExtend(Serialized(extends, authorList))
              /\ Cardinality({j \in DOMAIN doc' : doc'[j].val.kind = "state"}) <= Len(states)
      ]_vars

FactoryOf(module) == CHOOSE f \in Factories : f.module = module

\* what the claims call a rejected operation name
Rejected(f, func) ==
    /\ f.valid_funcs # <<>>
    /\ \A i \in DOMAIN f.valid_funcs : f.valid_funcs[i] # func

Held(e, k) == Deref(e.st.kwargs[k], authorList)

Code(k) ==
    CASE k = "onchanges" -> <<111, 110, 99, 104, 97, 110, 103, 101, 115>>
      [] k = "owner" -> <<111, 119, 110, 101, 114>>
      [] k = "require" -> <<114, 101, 113, 117, 105, 114, 101>>
      [] k = "require_in" -> <<114, 101, 113, 117, 105, 114, 101, 95, 105, 110>>
      [] k = "use" -> <<117, 115, 101>>
      [] k = "use_in" -> <<117, 115, 101, 95, 105, 110>>
      [] k = "watch" -> <<119, 97, 116, 99, 104>>
      [] k = "watch_in" -> <<119, 97, 116, 99, 104, 95, 105, 110>>

\* s comes before t in the order of str: at the first position where they
\* differ s has the smaller character, or s is a proper prefix of t
LexLess(s, t) ==
    \/ Len(s) < Len(t) /\ SubSeq(t, 1, Len(s)) = s
    \/ \E i \in 1..Len(s) :
          /\ i <= Len(t)
          /\ SubSeq(s, 1, i - 1) = SubSeq(t, 1, i - 1)
          /\ s[i] < t[i]

\* C12: the attributes of every declaration are one one-key mapping per key
\* of its kwargs, author-supplied and injected alike, each key once, in
\* ascending order of key.
C12_SortedOncePerKey ==
    \A e \in Entries :
        LET a == attrs(e.st, authorList)
        IN /\ {a[i].k : i \in DOMAIN a} = DOMAIN e.st.kwargs
           /\ Len(a) = Cardinality(DOMAIN e.st.kwargs)
           /\ \A i, j \in DOMAIN a : i < j => LexLess(Code(a[i].k), Code(a[j].k))

\* C12 witness: a declaration with the author's owner and require and an
\* injected onchanges, serialized in the order onchanges, owner, require
C12_Witness ==
    \E e \in Entries :
        /\ DOMAIN e.given = {"owner", "require"}
        /\ [i \in DOMAIN attrs(e.st, authorList) |-> attrs(e.st, authorList)[i].k] =
              <<"onchanges", "owner", "require">>

\* C13: include(names) appends the names to includes and changes nothing
\* else in the registry; the Document salt_data() returns has the key
\* "include" exactly when includes is not empty, holding the included names
\* in call order, after the declaration ids and before the key "extend".
C13_IncludeSection ==
    [][/\ (pc = "run" /\ last'.op = "include") =>
              /\ \E names \in IncludeInputs : includes' = includes \o names
              /\ UNCHANGED <<states, extends, requisites>>
       /\ SaltDataCall =>
              /\ ("include" \in Keys(doc')) <=> (includes # <<>>)
              /\ includes # <<>> =>
                    \E j \in DOMAIN doc' :
                        /\ doc'[j].id = "include"
                        /\ doc'[j].val = DocInclude(includes)
                        /\ \A i \in DOMAIN doc' :
                              /\ doc'[i].id \in Keys(states) \ {"include"} => i < j
                              /\ doc'[i].id = "extend" => j < i
      ]_vars

\* C14: every render starts from an empty registry, whatever the render
\* before it left behind and however it ended, and in the state the first
\* render started in, so that the calls of its program and nothing else
\* decide its Document; a render that fails returns nothing, and a Document
\* is returned only by a render that ran to its end.
C14_RenderStartsClean ==
    [][/\ (pc \in {"done", "fail"} /\ pc' = "run") =>
              /\ states' = <<>> /\ extends' = <<>> /\ includes' = <<>>
              /\ requisites' = <<>>
              /\ authorList' = AuthorListInit /\ blocks' = <<>> /\ doc' = <<>>
       /\ pc' = "fail" => doc' = <<>>
       /\ doc' # <<>> => pc = "run" /\ pc' = "done" /\ doc' = salt_data_result
       /\ (pc = "run" /\ pc' = "done") =>
              \A j \in DOMAIN doc' :
                  doc'[j].id \in Keys(states) \cup {"include", "extend"}
      ]_vars

\* C14 witness: a render starts after a render that failed with declarations
\* in its registry, and its own registry is empty
C14_Witness ==
    /\ last.op = "render"
    /\ last.prev = "fail"
    /\ last.left > 0
    /\ pc = "run"
    /\ states = <<>> /\ extends = <<>> /\ includes = <<>> /\ requisites = <<>>

\* C15: Factory(id, requisite) and extend(name), evaluated by themselves,
\* leave states, extends, includes and the requisite stack as they were and
\* raise nothing, whether or not the registry holds the id; the stack grows
\* only when a scope is entered and a section grows only when a State is
\* constructed.
C15_RequisiteAndExtendPure ==
    [][/\ (pc = "run" /\ last'.op \in {"requisite", "make_extend"}) =>
              /\ UNCHANGED <<states, extends, includes, requisites>>
              /\ last'.err = "" /\ pc' = "run"
       /\ Len(requisites') > Len(requisites) =>
              \/ last'.op = "enter"
              \/ last'.op = "state" /\ last'.entered
       /\ (Len(states') > Len(states) \/ Len(extends') > Len(extends)) =>
              last'.op = "state"
      ]_vars

\* C15 witness: inside a scope and with a declaration registered, a
\* requisite was made for an id no section holds
C15_Witness ==
    /\ last.op = "requisite"
    /\ last.id \notin Keys(states) \cup Keys(extends)
    /\ states # <<>>
    /\ requisites # <<>>

\* what a declaration serializes under relation key k if it has the author's
\* values and the edges of the scopes active at its construction, no others
ExpectedUnder(e, k) ==
    LET own == IF k \in DOMAIN e.given THEN Normalized(e.given[k]) ELSE << >>
    IN IF k \in DOMAIN e.given \cup Relations(e.scopes)
       THEN << [k |-> k, v |-> List(own \o EdgesFor(e.scopes, k))] >>
       ELSE << >>

\* every registered declaration has, under every relation key, the author's
\* values followed by the edges of the scopes active when it was constructed
EdgesOfOwnScopesOnly ==
    \A e \in Entries :
        \A k \in RequisiteKeys \cup Relations(e.scopes) \cup Relations(requisites) :
            AttrsUnder(e, k) = ExpectedUnder(e, k)

\* C16: a declaration gets injected edges from exactly the scopes active
\* when it is constructed: the owner of a block gets no edge to itself,
\* a declaration made before a scope is entered or after it is left gets no
\* edge from it, and entering and leaving scopes changes no attribute of a
\* declaration already registered.
C16_EdgesFromScopesAtConstruction ==
    /\ []EdgesOfOwnScopesOnly
    /\ [][last'.op \in {"enter", "exit", "unwind"} =>
             /\ states' = states /\ extends' = extends
             /\ authorList' = authorList]_vars
    /\ [][(StateCall /\ last'.err = "" /\ last'.entered) =>
             /\ TargetAfter[Len(TargetAfter)].scopes = requisites
             /\ requisites' = Append(requisites,
                                     StateRequisite("require", last'.module, last'.id))]_vars

\* C17: an add that fails with DuplicateState leaves both sections (ids,
\* order, stored declarations and their attributes), includes and the
\* requisite stack as they were, also with scopes active; the error is
\* raised by the constructing call, and salt_data() raises nothing.
C17_DuplicateChangesNothing ==
    [][/\ (StateCall /\ last'.err = "DuplicateState") =>
              /\ UNCHANGED <<states, extends, includes, requisites>>
              /\ authorList' = authorList
              /\ salt_data_result' = salt_data_result
              /\ pc' = "raise"
       /\ SaltDataCall => last'.err = "" /\ pc' = "done"
      ]_vars

\* C17 witness: inside a scope, a State whose require is the list another
\* declaration holds was refused as a duplicate
C17_Witness ==
    /\ last.op = "state"
    /\ last.err = "DuplicateState"
    /\ last.depth > 0
    /\ "require" \in DOMAIN last.kwargs /\ last.kwargs["require"] = Ref
    /\ \E e \in Entries : e.id = last.id /\ "require" \in DOMAIN e.given
    /\ pc = "raise"

\* the name "n.o" is in the list the render was given
Listed(n, o) == \E j \in DOMAIN _states : Join(_states[j]) = n \o "." \o o

\* the namespaces in use and the names they are to be bound under
Namespaces == {"file", "pkg", "svc"}
CapitalizedName(n) ==
    CASE n = "file" -> "File" [] n = "pkg" -> "Pkg" [] n = "svc" -> "Svc"

Occurs(n) == \E o \in FuncInputs : Listed(n, o)

\* in every render the bound factories are one per namespace of the list,
\* each under the capitalized name, with that namespace as its module and
\* accepting exactly the functions listed under it
OneFactoryPerNamespace ==
    /\ DOMAIN _globals(_states) = {CapitalizedName(n) : n \in {m \in Namespaces : Occurs(m)}}
    /\ \A n \in Namespaces :
          Occurs(n) =>
              LET factory == _globals(_states)[CapitalizedName(n)]
              IN /\ factory.module = n
                 /\ \A o \in FuncInputs \cup {"bogus"} :
                       ~IsInvalidFunction(factory, o) <=> Listed(n, o)

C19_RelationsClosed ==
    /\ last.op = "requisite" => last.requisite \in RequisiteKeys
    /\ \A i \in DOMAIN requisites : requisites[i].requisite \in RequisiteKeys
    /\ \A e \in Entries : (DOMAIN e.st.kwargs) \ (DOMAIN e.given) \subseteq RequisiteKeys

\* the part of C19 about a State's own requisite: the block a State opens
\* pushes a requisite of relation require
OwnRequisiteIsRequire ==
    [][(StateCall /\ last'.err = "" /\ last'.entered) =>
           requisites'[Len(requisites')].requisite = "require"]_vars

\* a section as it would be had no attributes been read: every State with
\* the kwargs add() left it with
Unread(od) == [i \in DOMAIN od |-> [od[i] EXCEPT !.st.kwargs = od[i].kwargs0]]

\* the Document salt_data() builds from the given sections
DocumentOf(sts, exts) ==
    LET d0 == Serialized(sts, authorList)
        d1 == IF includes # <<>> THEN ODSet(d0, "include", DocInclude(includes)) ELSE d0
    IN IF exts # <<>>
       THEN ODSet(d1, "extend", DocExtend(Serialized(exts, authorList)))
       ELSE d1

\* reading the attributes of a State a second time returns what the first
\* read returned
SecondReadSame ==
    [][(pc = "run" /\ last'.op = "attrs") =>
          /\ \A i \in DOMAIN states :
                attrs(states'[i].st, authorList') = attrs(states[i].st, authorList)
          /\ \A i \in DOMAIN extends :
                attrs(extends'[i].st, authorList') = attrs(extends[i].st, authorList)]_vars

\* C20: reading a State's attributes, or printing it, before salt_data()
\* returns the same at the second read as at the first, and the Document
\* salt_data() returns is the one it would return had no attributes been
\* read before.
C20_ReadsDoNotShow ==
    /\ SecondReadSame
    /\ [][SaltDataCall => doc' = DocumentOf(Unread(states), Unread(extends))]_vars

====
